---- MODULE Spec2Model ----
(***************************************************************************)
(* Changelog insertion engine of scripts/version_update.py together with   *)
(* the version helpers of scripts/helpers.py.                              *)
(*                                                                         *)
(* Text is modelled as a sequence of tokens.  A token stands for a run of  *)
(* characters that the script's regular expressions treat as a unit (a     *)
(* title, an underline, an entry introducer "X.Y.Z (YYYY-MM-DD)", a run of *)
(* blanks, a run of decimal digits, other text) or for the line break.  A  *)
(* file is the token sequence of its bytes; readlines and writelines       *)
(* convert between that sequence and a list of lines, as Python does.      *)
(***************************************************************************)
EXTENDS Integers, Sequences, FiniteSets, TLC

VARIABLES
    changelog,        \* the text of the changelog file CHANGELOG.md
    calls,            \* the calls of update_changelog made directly, oldest first
    entry_text,       \* a changelog entry text handed to the entry formatter
    entry_version,    \* the version handed to the entry formatter
    entry_lines,      \* the lines the entry formatter made of them
    readme,           \* the text of the second changelog file, readme.txt
    php,              \* the version declarations of the PHP file
    config,           \* config["files"] of version-update-config.yml
    fault,            \* what the file system does to each path
    pr_changes,       \* the text of pr_changes.txt
    pc,               \* where main is: idle, loop, done, exit0, exit1
    idx,              \* index of the next entry of config["files"] in the loop
    new_version,      \* main's new_version
    changelog_entry,  \* main's changelog_entry
    out,              \* what the loop of this run did to each file so far
    runs              \* runs of main started so far

callVars == <<changelog, calls>>
formatVars == <<entry_text, entry_version, entry_lines>>
mainVars == <<readme, php, config, fault, pr_changes, pc, idx, new_version,
              changelog_entry, out, runs>>
vars == <<callVars, formatVars, mainVars>>

----------------------------------------------------------------------------
(* Bounds of the model *)

\* longest run of lines below the header in an initial changelog
MaxTail == 3

\* longest body text (in tokens) handed to the entry formatter on its own
MaxBody == 5

\* longest changelog tail and number of release runs of the orchestrator
MaxMainTail == 2
MaxRuns == 2

----------------------------------------------------------------------------
(* Tokens *)

NL == [k |-> "nl", v |-> <<>>, s |-> ""]
Title == [k |-> "title", v |-> <<>>, s |-> "Changelog"]
Under == [k |-> "under", v |-> <<>>, s |-> "========="]
Ws == [k |-> "ws", v |-> <<>>, s |-> "  "]
Digits == [k |-> "digits", v |-> <<>>, s |-> "1"]
Text(s) == [k |-> "text", v |-> <<>>, s |-> s]

\* the text "X.Y.Z (date)"; v is the version text, one digit string per part
Intro(v, date) == [k |-> "intro", v |-> v, s |-> date]

\* the decimal digits a "digits" token stands for
DigitsOf(tok) == IF tok.s = "1" THEN <<1>> ELSE <<0>>

RECURSIVE Flatten(_)
Flatten(ss) == IF ss = <<>> THEN <<>> ELSE Head(ss) \o Flatten(Tail(ss))

Last(s) == s[Len(s)]

----------------------------------------------------------------------------
(* File input and output *)

\* f.readlines(): the text cut after every line break; a last line without
\* a line break is a line too
RECURSIVE SplitLines(_, _)
SplitLines(text, cur) ==
    IF text = <<>> THEN (IF cur = <<>> THEN <<>> ELSE <<cur>>)
    ELSE IF Head(text) = NL
         THEN <<Append(cur, NL)>> \o SplitLines(Tail(text), <<>>)
         ELSE SplitLines(Tail(text), Append(cur, Head(text)))

readlines(text) == SplitLines(text, <<>>)

\* f.writelines(lines): the lines written one after the other, nothing added
writelines(lines) == Flatten(lines)

----------------------------------------------------------------------------
(* helpers.py *)

RECURSIVE ToInt(_)
ToInt(ds) == IF ds = <<>> THEN 0 ELSE 10 * ToInt(SubSeq(ds, 1, Len(ds) - 1)) + Last(ds)

RECURSIVE ToDigits(_)
ToDigits(n) == IF n < 10 THEN <<n>> ELSE Append(ToDigits(n \div 10), n % 10)

\* parse_version: the three parts as integers
parse_version(version) == <<ToInt(version[1]), ToInt(version[2]), ToInt(version[3])>>

\* increment_version: the patch part plus one, every part written back in decimal
increment_version(version) ==
    <<ToDigits(ToInt(version[1])), ToDigits(ToInt(version[2])), ToDigits(ToInt(version[3]) + 1)>>

\* Python's order on tuples of integers
TupleLess(a, b) ==
    \/ a[1] < b[1]
    \/ a[1] = b[1] /\ a[2] < b[2]
    \/ a[1] = b[1] /\ a[2] = b[2] /\ a[3] < b[3]

----------------------------------------------------------------------------
(* Regular expressions of update_changelog *)

\* re.search(pattern, text) for a pattern that is a literal token sequence
Search(pattern, text) ==
    \E i \in 1..(Len(text) + 1) :
        /\ i + Len(pattern) - 1 <= Len(text)
        /\ SubSeq(text, i, i + Len(pattern) - 1) = pattern

\* version_pattern.match(line).group(1): the version text at the start of the
\* line, <<>> when the line does not start with "X.Y.Z (YYYY-MM-DD)".  Digits
\* right before an introducer are read as the front of its major part.
RECURSIVE MatchFrom(_, _)
MatchFrom(line, front) ==
    IF line = <<>> THEN <<>>
    ELSE IF Head(line).k = "intro"
         THEN <<front \o Head(line).v[1], Head(line).v[2], Head(line).v[3]>>
         ELSE IF Head(line).k = "digits"
              THEN MatchFrom(Tail(line), front \o DigitsOf(Head(line)))
              ELSE <<>>

version_pattern(line) == MatchFrom(line, <<>>)

IsSpace(tok) == tok.k \in {"ws", "nl"}

\* not line.strip()
IsBlank(line) == \A j \in 1..Len(line) : IsSpace(line[j])

\* str.strip()
RECURSIVE LStrip(_)
LStrip(text) ==
    IF text # <<>> /\ IsSpace(Head(text)) THEN LStrip(Tail(text)) ELSE text

RECURSIVE RStrip(_)
RStrip(text) ==
    IF text # <<>> /\ IsSpace(Last(text))
    THEN RStrip(SubSeq(text, 1, Len(text) - 1)) ELSE text

strip(text) == RStrip(LStrip(text))

\* str.split('\n'): the pieces between line breaks, at least one piece
RECURSIVE SplitNL(_, _)
SplitNL(text, cur) ==
    IF text = <<>> THEN <<cur>>
    ELSE IF Head(text) = NL
         THEN <<cur>> \o SplitNL(Tail(text), <<>>)
         ELSE SplitNL(Tail(text), Append(cur, Head(text)))

split(text) == SplitNL(text, <<>>)

----------------------------------------------------------------------------
(* update_changelog *)

\* datetime.datetime.now().strftime("%Y-%m-%d")
today == "2024-02-01"

\* lines[i] with Python's indices, which start at 0
At(lines, i) == lines[i + 1]

\* lines[a:b]
Slice(lines, a, b) == SubSeq(lines, a + 1, b)

\* the new entry: introducer, one line per line of the stripped entry text,
\* one empty line
\* a variant that does not strip the entry text
new_entry_lines_no_strip(entry, nv) ==
    LET body == split(entry)
    IN  <<<<Intro(nv, today), NL>>>>
        \o [j \in 1..Len(body) |-> Append(body[j], NL)]
        \o <<<<NL>>>>

new_entry_lines(entry, nv) ==
    LET body == split(strip(entry))
    IN  <<<<Intro(nv, today), NL>>>>
        \o [j \in 1..Len(body) |-> Append(body[j], NL)]
        \o <<<<NL>>>>

\* first pass: the index of the second line of the first pair of adjacent
\* lines whose concatenation the header pattern matches, -1 when there is none
header_line_index(lines, header_pattern) ==
    LET hits == {i \in 0..(Len(lines) - 2) :
                    Search(header_pattern, At(lines, i) \o At(lines, i + 1))}
    IN  IF hits = {} THEN -1
        ELSE (CHOOSE i \in hits : \A j \in hits : i <= j) + 1

\* second pass: the indices of the lines after the header that start an entry
versions(lines, hdr) ==
    {i \in (hdr + 1)..(Len(lines) - 1) : version_pattern(At(lines, i)) # <<>>}

\* sorted(versions, key=parse_version, reverse=True)[0]: the sort is stable,
\* so among equal versions the first one in the document comes first
highest_version_line(lines, vs) ==
    CHOOSE i \in vs :
        \A j \in vs :
            LET ki == parse_version(version_pattern(At(lines, i)))
                kj == parse_version(version_pattern(At(lines, j)))
            IN  /\ ~TupleLess(ki, kj)
                /\ (ki = kj => i <= j)

\* the first index from `from` on whose line starts an entry, or len(lines)
RECURSIVE end_of_entry(_, _)
end_of_entry(lines, from) ==
    IF from < Len(lines) /\ version_pattern(At(lines, from)) = <<>>
    THEN end_of_entry(lines, from + 1) ELSE from

\* the first index from `from` on whose line is not blank, or len(lines)
RECURSIVE skip_empty(_, _)
skip_empty(lines, from) ==
    IF from < Len(lines) /\ IsBlank(At(lines, from))
    THEN skip_empty(lines, from + 1) ELSE from

\* a variant that inserts in front of the highest entry instead of after it
insertion_index_before_highest(lines, hdr) ==
    LET vs == versions(lines, hdr)
    IN  IF vs = {} THEN skip_empty(lines, hdr + 1)
        ELSE highest_version_line(lines, vs)

insertion_index(lines, hdr) ==
    LET vs == versions(lines, hdr)
    IN  IF vs = {} THEN skip_empty(lines, hdr + 1)
        ELSE end_of_entry(lines, highest_version_line(lines, vs) + 1)

\* a variant whose second slice starts one line late
updated_lines_drop_line(lines, at, new) ==
    Slice(lines, 0, at) \o new \o Slice(lines, at + 1, Len(lines))

\* lines[:insertion_index] + new_entry_lines + lines[insertion_index:]
updated_lines(lines, at, new) ==
    Slice(lines, 0, at) \o new \o Slice(lines, at, Len(lines))

(* What the file system does to one call.  "ok": every operation succeeds. *)
(* "read_error": opening or reading the file raises.  "open_error":        *)
(* opening it for writing raises.  "write_error": the file was opened for  *)
(* writing, which empties it, and writing raises after n whole lines.      *)
IoOk == [e |-> "ok", n |-> 0]
IoReadError == [e |-> "read_error", n |-> 0]
IoOpenError == [e |-> "open_error", n |-> 0]
IoWriteError(n) == [e |-> "write_error", n |-> n]

\* a variant without the early return for a missing header
update_changelog_no_return(text, header_pattern, entry, nv, io) ==
    IF io.e # "ok" THEN [ret |-> FALSE, text |-> text]
    ELSE
    LET lines == readlines(text)
        new == new_entry_lines(entry, nv)
        hdr == header_line_index(lines, header_pattern)
    IN  [ret |-> TRUE,
         text |-> writelines(updated_lines(lines, insertion_index(lines, hdr), new))]

\* a variant that leaves the file alone when it already holds an entry of the
\* new version
update_changelog_skip_existing(text, header_pattern, entry, nv, io) ==
    IF io.e # "ok" THEN [ret |-> FALSE, text |-> text]
    ELSE
    LET lines == readlines(text)
        new == new_entry_lines(entry, nv)
        hdr == header_line_index(lines, header_pattern)
    IN  IF hdr = -1 THEN [ret |-> FALSE, text |-> text]
        ELSE IF \E i \in versions(lines, hdr) : version_pattern(At(lines, i)) = nv
             THEN [ret |-> TRUE, text |-> text]
             ELSE [ret |-> TRUE,
                   text |-> writelines(updated_lines(lines, insertion_index(lines, hdr), new))]

\* update_changelog(file_path, header_pattern, changelog_entry, new_version):
\* the value returned and the text of the file afterwards
update_changelog(text, header_pattern, entry, nv, io) ==
    IF io.e = "read_error" THEN [ret |-> FALSE, text |-> text]
    ELSE
    LET lines == readlines(text)
        new == new_entry_lines(entry, nv)
        hdr == header_line_index(lines, header_pattern)
    IN  IF hdr = -1 THEN [ret |-> FALSE, text |-> text]
        ELSE
        LET upd == updated_lines(lines, insertion_index(lines, hdr), new)
        IN  CASE io.e = "open_error" -> [ret |-> FALSE, text |-> text]
              [] io.e = "write_error" ->
                    [ret |-> FALSE,
                     text |-> writelines(Slice(upd, 0, IF io.n < Len(upd) THEN io.n ELSE Len(upd) - 1))]
              [] OTHER -> [ret |-> TRUE, text |-> writelines(upd)]

----------------------------------------------------------------------------
(* The PHP file *)

(* The PHP file is the pair of its two version declarations: the header    *)
(* field "Version: X.Y.Z" and the define('..VERSION', 'X.Y.Z') statement,  *)
(* each a version text, or <<>> when the file has no such declaration.     *)
NoPhp == [header |-> <<>>, define |-> <<>>]

\* get_current_version: the header field first, then the define statement;
\* <<>> stands for the exception (the file cannot be read, or holds neither)
get_current_version(content, io) ==
    IF io.e = "read_error" THEN <<>>
    ELSE IF content.header # <<>> THEN content.header
    ELSE content.define

\* re.sub of every pattern in turn; a pattern names the declaration its search
\* expression matches, and its replacement holds {{new_version}}
RECURSIVE substitute(_, _, _)
substitute(content, patterns, nv) ==
    IF patterns = <<>> THEN content
    ELSE LET f == Head(patterns)
             c == IF content[f] # <<>> THEN [content EXCEPT ![f] = nv] ELSE content
         IN  substitute(c, Tail(patterns), nv)

\* update_version_in_file: the value returned and the file afterwards; the
\* text is written in one piece, so a failed write leaves the file empty
update_version_in_file(content, patterns, nv, io) ==
    CASE io.e = "read_error" -> [ret |-> FALSE, content |-> content]
      [] io.e = "open_error" -> [ret |-> FALSE, content |-> content]
      [] io.e = "write_error" -> [ret |-> FALSE, content |-> NoPhp]
      [] OTHER -> [ret |-> TRUE, content |-> substitute(content, patterns, nv)]

NoFault == [p \in {"plugin.php", "CHANGELOG.md", "readme.txt"} |-> IoOk]

----------------------------------------------------------------------------
(* Inputs *)

V(a, b, c) == <<a, b, c>>
V102 == V(<<1>>, <<0>>, <<2>>)
V190 == V(<<1>>, <<9>>, <<0>>)
V1100 == V(<<1>>, <<1, 0>>, <<0>>)

\* the versions of the entries of an initial changelog
OldVersions == {V102, V190, V1100}
OldDate == "2024-01-01"

\* complete lines of an initial changelog below its header
TailLines ==
    {<<NL>>, <<Text("- old fix"), NL>>}
    \cup {<<Intro(v, OldDate), NL>> : v \in OldVersions}

\* last lines that do not end in a line break
OpenLines ==
    {<<Text("- old fix")>>, <<Ws>>, <<Digits>>}
    \cup {<<Intro(v, OldDate)>> : v \in OldVersions}

\* all sequences of at most n elements of S
RECURSIVE SeqsUpTo(_, _)
SeqsUpTo(S, n) ==
    IF n = 0 THEN {<<>>}
    ELSE LET shorter == SeqsUpTo(S, n - 1)
         IN  shorter \cup {Append(q, x) : q \in shorter, x \in S}

\* the lines below the header: complete lines, then possibly one open line
Tails(n) ==
    SeqsUpTo(TailLines, n)
    \cup (IF n = 0 THEN {}
          ELSE {Append(q, x) : q \in SeqsUpTo(TailLines, n - 1), x \in OpenLines})

HeaderLines == <<<<Title, NL>>, <<Under, NL>>>>

\* changelogs with a title and an underline on top
HeaderDocs(n) ==
    {writelines(HeaderLines \o t) : t \in Tails(n)}
    \cup {writelines(<<<<Title, NL>>, <<Under>>>>)}

\* changelogs in which no title is followed by an underline
NoHeaderDocs ==
    {writelines(ls) : ls \in
        {<<>>,
         <<<<Title, NL>>>>,
         <<<<Title>>>>,
         <<<<Under, NL>>, <<Title, NL>>>>,
         <<<<Title, NL>>, <<NL>>, <<Under, NL>>>>,
         <<<<Title, NL>>, <<Intro(V102, OldDate), NL>>, <<Text("- old fix"), NL>>>>,
         <<<<Intro(V102, OldDate), NL>>, <<Text("- old fix")>>>>}}

\* header patterns of the configuration: "Changelog\n=========",
\* "Changelog\n=========\n" and the empty pattern, the default of main
HeaderPatterns == {<<Title, NL, Under>>, <<Title, NL, Under, NL>>, <<>>}

NewVersions == {V(<<1>>, <<0>>, <<3>>), V(<<1>>, <<1, 0>>, <<1>>)}

Entries ==
    {<<Text("- new fix")>>,
     <<Text("- new fix"), NL, Text("- more"), NL>>}

IoOutcomes == {IoOk, IoReadError, IoOpenError, IoWriteError(0), IoWriteError(1)}

----------------------------------------------------------------------------
(* update_changelog called on one changelog file *)

\* the changelog of the concrete scenario: one entry, 1.0.2, with one line of
\* text and an empty line after it
ScenarioLines ==
    HeaderLines \o <<<<NL>>, <<Intro(V102, OldDate), NL>>, <<Text("- old fix"), NL>>, <<NL>>>>

\* no entry text is being formatted
FormatIdle == entry_text = <<>> /\ entry_version = <<>> /\ entry_lines = <<>>

\* main is not in use
MainIdle ==
    /\ readme = <<>> /\ php = NoPhp /\ config = <<>> /\ fault = NoFault
    /\ pr_changes = <<>> /\ pc = "idle" /\ idx = 0 /\ new_version = <<>>
    /\ changelog_entry = <<>> /\ out = <<>> /\ runs = 0

Init ==
    /\ changelog \in HeaderDocs(MaxTail) \cup NoHeaderDocs \cup {writelines(ScenarioLines)}
    /\ calls = <<>>
    /\ FormatIdle
    /\ MainIdle

Record(hp, entry, nv, io, r) ==
    [header_pattern |-> hp, changelog_entry |-> entry,
     new_version |-> nv, io |-> io, before |-> changelog, ret |-> r.ret]

\* a call with any arguments
UpdateChangelog(hp, entry, nv, io) ==
    /\ calls = <<>>
    /\ LET r == update_changelog(changelog, hp, entry, nv, io)
       IN  /\ changelog' = r.text
           /\ calls' = <<Record(hp, entry, nv, io, r)>>
    /\ UNCHANGED <<formatVars, mainVars>>

\* a second call with the arguments of the first, on the file it left
UpdateChangelogAgain(io) ==
    /\ Len(calls) = 1
    /\ LET c == calls[1]
           r == update_changelog(changelog, c.header_pattern, c.changelog_entry, c.new_version, io)
       IN  /\ changelog' = r.text
           /\ calls' = Append(calls, Record(c.header_pattern, c.changelog_entry, c.new_version, io, r))
    /\ UNCHANGED <<formatVars, mainVars>>

Next ==
    \/ \E hp \in HeaderPatterns, e \in Entries, nv \in NewVersions, io \in IoOutcomes :
            UpdateChangelog(hp, e, nv, io)
    \/ \E io \in IoOutcomes : UpdateChangelogAgain(io)

Spec == Init /\ [][Next]_vars

----------------------------------------------------------------------------
(* Vocabulary of the properties *)

LastCall == calls[Len(calls)]

\* the last call returned True
Succeeded == calls # <<>> /\ LastCall.ret

\* the lines of the file before and after the last call
Before == readlines(LastCall.before)
After == readlines(changelog)

\* the block the last call was to insert
Block == new_entry_lines(LastCall.changelog_entry, LastCall.new_version)

\* the version texts of the lines that start an entry, from index i on
RECURSIVE ScanFrom(_, _)
ScanFrom(lines, i) ==
    IF i >= Len(lines) THEN <<>>
    ELSE (IF version_pattern(At(lines, i)) # <<>>
          THEN <<version_pattern(At(lines, i))>> ELSE <<>>)
         \o ScanFrom(lines, i + 1)

\* the entries below the header in document order, as a reader of the file
\* that uses the same header pattern finds them
EntryScan(lines, header_pattern) ==
    LET hdr == header_line_index(lines, header_pattern)
    IN  IF hdr = -1 THEN <<>> ELSE ScanFrom(lines, hdr + 1)

\* position h of a sequence of version texts holds a numerically highest one
IsHighest(vs, h) ==
    \A j \in 1..Len(vs) : ~TupleLess(parse_version(vs[h]), parse_version(vs[j]))

InsertAfter(vs, h, v) == SubSeq(vs, 1, h) \o <<v>> \o SubSeq(vs, h + 1, Len(vs))

\* the text ends in a line break, or is empty
Terminated(text) == text = <<>> \/ Last(text) = NL

----------------------------------------------------------------------------
(* C1 *)

\* C1: after a successful call on a changelog with a header and at least one
\* entry, the scan of the entries below the header finds the entries of
\* before with the new version right after the entry that held the
\* numerically highest version.
C1_NewEntryFollowsHighest ==
    (Succeeded /\ EntryScan(Before, LastCall.header_pattern) # <<>>) =>
        LET old == EntryScan(Before, LastCall.header_pattern)
        IN  \E h \in 1..Len(old) :
                /\ IsHighest(old, h)
                /\ EntryScan(After, LastCall.header_pattern)
                        = InsertAfter(old, h, LastCall.new_version)

\* the same for files whose last line ends in a line break
C1_WhenTerminated ==
    (calls # <<>> /\ Terminated(LastCall.before)) => C1_NewEntryFollowsHighest

----------------------------------------------------------------------------
(* C2 *)

V103 == V(<<1>>, <<0>>, <<3>>)

ScenarioBlock == <<<<Intro(V103, today), NL>>, <<Text("- new fix"), NL>>, <<NL>>>>

\* the call of the scenario: version 1.0.3 with the text "- new fix" into the
\* scenario's changelog, with a header pattern that matches its first two lines
ScenarioCall ==
    /\ calls # <<>>
    /\ LastCall.before = writelines(ScenarioLines)
    /\ LastCall.new_version = V103
    /\ LastCall.changelog_entry = <<Text("- new fix")>>
    /\ LastCall.io = IoOk
    /\ header_line_index(Before, LastCall.header_pattern) = 1

\* C2 as stated: the block of 1.0.3 is put right before the line
\* "1.0.2 (2024-01-01)".
C2_BlockBeforeOldEntry ==
    ScenarioCall =>
        After = Slice(ScenarioLines, 0, 3) \o ScenarioBlock \o Slice(ScenarioLines, 3, 6)

\* C2 (amended): the block of 1.0.3 is put right after the whole entry of
\* 1.0.2, that is after the empty line that ends the file, so the new entry
\* ends up below the existing one.
C2_BlockAfterOldEntry ==
    ScenarioCall => (LastCall.ret /\ After = ScenarioLines \o ScenarioBlock)

C2_Witness == ScenarioCall /\ LastCall.ret /\ Len(After) = 9

----------------------------------------------------------------------------
(* C4 *)

\* C4: when no pair of adjacent lines matches the header pattern, the call
\* returns False and the file is what it was, whatever opening it for writing
\* would have done.
C4_NoHeaderNoChange ==
    (calls # <<>> /\ header_line_index(Before, LastCall.header_pattern) = -1) =>
        (~LastCall.ret /\ changelog = LastCall.before)

\* a call on a file of two lines or more without a header, on a file system
\* where writing would have failed and emptied the file
C4_Witness ==
    /\ calls # <<>>
    /\ header_line_index(Before, LastCall.header_pattern) = -1
    /\ Len(Before) >= 2
    /\ LastCall.io.e = "write_error"
    /\ changelog = LastCall.before

----------------------------------------------------------------------------
(* C5 *)

\* the text of `lines` with `new` put in front of the line of index j
Spliced(lines, j, new) ==
    writelines(Slice(lines, 0, j)) \o writelines(new) \o writelines(Slice(lines, j, Len(lines)))

\* C5: after a successful call the file is the text of before with the block
\* put in between two of its lines (or in front of the first, or behind the
\* last): taking the block out gives back the text of before.
C5_OnlyBlockAdded ==
    Succeeded => \E j \in 0..Len(Before) : changelog = Spliced(Before, j, Block)

\* a successful call that put the block between two entries
C5_Witness ==
    /\ Succeeded
    /\ \E j \in 3..(Len(Before) - 1) :
            /\ changelog = Spliced(Before, j, Block)
            /\ version_pattern(At(Before, j)) # <<>>

----------------------------------------------------------------------------
(* C6 *)

\* C6: after a successful call on a changelog with a header and no entry, the
\* block stands at the first line after the header's second line that is not
\* blank, or at the end of the file when there is none, and the scan finds the
\* new version as the only entry below the header.
C6_OnlyEntryAfterHeader ==
    (Succeeded /\ EntryScan(Before, LastCall.header_pattern) = <<>>) =>
        LET hdr == header_line_index(Before, LastCall.header_pattern)
            blanks == {j \in (hdr + 1)..Len(Before) :
                          \A i \in (hdr + 1)..(j - 1) : IsBlank(At(Before, i))}
            at == CHOOSE j \in blanks :
                      /\ j = Len(Before) \/ ~IsBlank(At(Before, j))
                      /\ \A i \in blanks : i <= j
        IN  /\ changelog = Spliced(Before, at, Block)
            /\ EntryScan(After, LastCall.header_pattern) = <<LastCall.new_version>>

\* the same for files whose last line ends in a line break
C6_WhenTerminated ==
    (calls # <<>> /\ Terminated(LastCall.before)) => C6_OnlyEntryAfterHeader

----------------------------------------------------------------------------
(* C7 *)

\* C7 as stated, for a first file that ends in a line break: a second call
\* with the same version, date and text on the file the first call produced
\* leaves that file as it is.
C7_SecondCallAddsNothing ==
    (Len(calls) = 2 /\ calls[1].ret /\ calls[2].io = IoOk
        /\ Terminated(calls[1].before)) =>
        changelog = calls[2].before

\* C7 (amended): a second call with the same version, date and text that
\* succeeds on the file the first call produced inserts the block once more:
\* the file is the file after one call with the block spliced in, two blocks
\* longer than the first file, and never the file after one call.
C7_SecondCallInsertsAgain ==
    (Len(calls) = 2 /\ calls[1].ret /\ calls[2].ret) =>
        /\ changelog # calls[2].before
        /\ \E j \in 0..Len(Before) : changelog = Spliced(Before, j, Block)
        /\ Len(changelog) = Len(calls[1].before) + 2 * Len(writelines(Block))

\* two successful calls after which the scan finds the new version twice
C7_Witness ==
    /\ Len(calls) = 2 /\ calls[1].ret /\ calls[2].ret
    /\ LET found == EntryScan(After, LastCall.header_pattern)
       IN  \E i, j \in 1..Len(found) :
               i < j /\ found[i] = LastCall.new_version /\ found[j] = LastCall.new_version

----------------------------------------------------------------------------
(* C10 *)

\* C10: after a successful call, the file read again as lines holds the line
\* "<new_version> (<date>)" below the header, and the scan takes it for an
\* entry of the new version.
C10_IntroducerIsALine ==
    Succeeded =>
        \E i \in versions(After, header_line_index(After, LastCall.header_pattern)) :
            /\ At(After, i) = <<Intro(LastCall.new_version, today), NL>>
            /\ version_pattern(At(After, i)) = LastCall.new_version

\* the same for files whose last line ends in a line break
C10_WhenTerminated ==
    (calls # <<>> /\ Terminated(LastCall.before)) => C10_IntroducerIsALine

----------------------------------------------------------------------------
(* The entry formatter on its own *)

BodyTokens == {Text("- new fix"), Text("- more"), Ws, NL}

CallsIdle == changelog = <<>> /\ calls = <<>>

InitFormat ==
    /\ entry_text \in SeqsUpTo(BodyTokens, MaxBody)
    /\ entry_version \in NewVersions
    /\ entry_lines = <<>>
    /\ CallsIdle
    /\ MainIdle

\* lines 82-86 of update_changelog applied to the entry text
FormatEntry ==
    /\ entry_lines = <<>>
    /\ entry_lines' = new_entry_lines(entry_text, entry_version)
    /\ UNCHANGED <<entry_text, entry_version, callVars, mainVars>>

NextFormat == FormatEntry

SpecFormat == InitFormat /\ [][NextFormat]_vars

----------------------------------------------------------------------------
(* C9 *)

\* the lines of a text as given: cut at the line breaks, without them
GivenLines(text) ==
    LET ls == readlines(text)
    IN  [j \in 1..Len(ls) |->
            IF Last(ls[j]) = NL THEN SubSeq(ls[j], 1, Len(ls[j]) - 1) ELSE ls[j]]

CountNL(text) == Cardinality({j \in 1..Len(text) : text[j] = NL})

\* C9 as stated, for an entry text that starts with an empty line and ends in
\* visible text: the block is the introducer, one line for each line of the
\* entry text as given, and one empty line, which makes (lines of the entry
\* text) + 2 lines.
C9_BlockKeepsTextAsGiven ==
    (entry_lines # <<>> /\ entry_text # <<>> /\ Head(entry_text) = NL
        /\ ~IsSpace(Last(entry_text))) =>
        LET given == GivenLines(entry_text)
        IN  /\ entry_lines = <<<<Intro(entry_version, today), NL>>>>
                    \o [j \in 1..Len(given) |-> Append(given[j], NL)]
                    \o <<<<NL>>>>
            /\ Len(entry_lines) = Len(given) + 2

\* C9 (amended): the block is the introducer, one line for each line of the
\* entry text with the blanks and line breaks at its two ends taken off (one
\* empty line when nothing is left), and one empty line: written out, it is
\* the introducer line, the stripped text, a line break and an empty line, in
\* (line breaks of the stripped text) + 3 lines.  Blank lines inside the text
\* stay; blank lines and blanks in front of it and behind it do not.
C9_BlockOfStrippedText ==
    entry_lines # <<>> =>
        \E a \in 0..Len(entry_text) : \E b \in a..Len(entry_text) :
            LET kept == SubSeq(entry_text, a + 1, b)
            IN  /\ \A j \in (1..a) \cup ((b + 1)..Len(entry_text)) : IsSpace(entry_text[j])
                /\ kept = <<>> \/ (~IsSpace(Head(kept)) /\ ~IsSpace(Last(kept)))
                /\ writelines(entry_lines)
                        = <<Intro(entry_version, today), NL>> \o kept \o <<NL, NL>>
                /\ Len(entry_lines) = CountNL(kept) + 3
                /\ \A j \in 1..Len(entry_lines) :
                        Last(entry_lines[j]) = NL /\ CountNL(entry_lines[j]) = 1

\* a block made of a text with an empty line in front and one inside
C9_Witness ==
    /\ entry_lines # <<>>
    /\ entry_text = <<NL, Text("- new fix"), NL, NL>> \o <<Text("- more")>>
    /\ Len(entry_lines) = 5

----------------------------------------------------------------------------
(* main *)

PhpTarget(patterns) ==
    [path |-> "plugin.php", type |-> "php", needs_description |-> TRUE,
     header_pattern |-> <<>>, patterns |-> patterns]

ChangelogTarget(path, needs_description) ==
    [path |-> path, type |-> "changelog", needs_description |-> needs_description,
     header_pattern |-> <<Title, NL, Under>>, patterns |-> <<>>]

OtherTarget ==
    [path |-> "package.json", type |-> "json", needs_description |-> TRUE,
     header_pattern |-> <<>>, patterns |-> <<>>]

\* the lists of files of the configuration; the last two name no PHP file
Configs ==
    {<<PhpTarget(<<"header", "define">>), ChangelogTarget("CHANGELOG.md", TRUE),
       ChangelogTarget("readme.txt", TRUE)>>,
     <<ChangelogTarget("CHANGELOG.md", TRUE), PhpTarget(<<"header">>),
       ChangelogTarget("readme.txt", TRUE)>>,
     <<ChangelogTarget("CHANGELOG.md", TRUE), ChangelogTarget("readme.txt", FALSE),
       OtherTarget, PhpTarget(<<>>)>>,
     <<ChangelogTarget("CHANGELOG.md", TRUE)>>,
     <<>>}

PhpFiles ==
    {[header |-> V102, define |-> V102], [header |-> <<>>, define |-> V190], NoPhp}

\* file systems on which at most one path fails, always in the same way
Faults ==
    {NoFault}
    \cup {[NoFault EXCEPT !["CHANGELOG.md"] = io] :
            io \in {IoReadError, IoOpenError, IoWriteError(0), IoWriteError(3)}}
    \cup {[NoFault EXCEPT !["plugin.php"] = io] : io \in {IoReadError, IoOpenError}}

\* PR_TITLE: release says whether it starts with "[release]" in any case,
\* clean_title is the title without that tag
Titles ==
    {[release |-> TRUE, clean_title |-> "Fix login"],
     [release |-> FALSE, clean_title |-> "Fix login"]}

InitMain ==
    /\ changelog \in HeaderDocs(MaxMainTail) \cup NoHeaderDocs
    /\ readme = writelines(HeaderLines)
    /\ php \in PhpFiles
    /\ config \in Configs
    /\ fault \in Faults
    /\ pr_changes \in {<<>>, <<Text("- new fix"), NL>>}
    /\ pc = "idle" /\ idx = 0 /\ new_version = <<>> /\ changelog_entry = <<>>
    /\ out = <<>> /\ runs = 0
    /\ calls = <<>>
    /\ FormatIdle

\* a variant of the loop that gives up at the first file that fails
after_file_abort(ret) == IF ret THEN "loop" ELSE "exit1"

\* the loop of main goes on to the next file whatever the update returned
after_file(ret) == "loop"

\* main up to its loop
Start(pr_title) ==
    /\ pc # "loop"
    /\ runs < MaxRuns
    /\ runs' = runs + 1
    /\ LET php_targets == {j \in 1..Len(config) : config[j].type = "php"}
           current_version == get_current_version(php, fault["plugin.php"])
       IN  IF ~pr_title.release
           THEN /\ pc' = "exit0"
                /\ out' = <<>>
                /\ UNCHANGED <<idx, new_version, changelog_entry>>
           ELSE IF php_targets = {} \/ current_version = <<>>
           THEN /\ pc' = "exit1"
                /\ out' = <<>>
                /\ UNCHANGED <<idx, new_version, changelog_entry>>
           ELSE /\ pc' = "loop"
                /\ idx' = 0
                /\ out' = <<>>
                /\ new_version' = increment_version(current_version)
                /\ changelog_entry' =
                        IF strip(pr_changes) # <<>> THEN pr_changes
                        ELSE <<Text("- " \o pr_title.clean_title)>>
    /\ UNCHANGED <<changelog, readme, php, config, fault, pr_changes, calls, formatVars>>

InLoop == pc = "loop" /\ idx < Len(config)

file_config == config[idx + 1]

TextOf(path) == IF path = "CHANGELOG.md" THEN changelog ELSE readme

Done(what, ret, before, after) ==
    [path |-> file_config.path, what |-> what, ret |-> ret, before |-> before,
     after |-> after,
     io |-> IF file_config.path \in DOMAIN fault THEN fault[file_config.path] ELSE IoOk]

\* file_type == "php"
StepPhp ==
    /\ InLoop
    /\ file_config.type = "php"
    /\ LET r == update_version_in_file(php, file_config.patterns, new_version,
                                       fault[file_config.path])
       IN  /\ php' = r.content
           /\ out' = Append(out, Done("version", r.ret, <<>>, <<>>))
           /\ pc' = after_file(r.ret)
    /\ idx' = idx + 1
    /\ UNCHANGED <<changelog, readme, config, fault, pr_changes, new_version,
                   changelog_entry, runs, calls, formatVars>>

\* file_type == "changelog" and needs_description
StepChangelog ==
    /\ InLoop
    /\ file_config.type = "changelog"
    /\ file_config.needs_description
    /\ LET r == update_changelog(TextOf(file_config.path), file_config.header_pattern,
                                 changelog_entry, new_version, fault[file_config.path])
       IN  /\ changelog' = IF file_config.path = "CHANGELOG.md" THEN r.text ELSE changelog
           /\ readme' = IF file_config.path = "CHANGELOG.md" THEN readme ELSE r.text
           /\ out' = Append(out, Done("changelog", r.ret, TextOf(file_config.path), r.text))
           /\ pc' = after_file(r.ret)
    /\ idx' = idx + 1
    /\ UNCHANGED <<php, config, fault, pr_changes, new_version, changelog_entry, runs,
                   calls, formatVars>>

\* file_type == "changelog" and not needs_description
StepSkip ==
    /\ InLoop
    /\ file_config.type = "changelog"
    /\ ~file_config.needs_description
    /\ out' = Append(out, Done("skipped", TRUE, <<>>, <<>>))
    /\ idx' = idx + 1
    /\ UNCHANGED <<changelog, readme, php, config, fault, pr_changes, pc, new_version,
                   changelog_entry, runs, calls, formatVars>>

\* any other file_type: no branch of the loop takes it
StepOther ==
    /\ InLoop
    /\ file_config.type \notin {"php", "changelog"}
    /\ out' = Append(out, Done("none", TRUE, <<>>, <<>>))
    /\ idx' = idx + 1
    /\ UNCHANGED <<changelog, readme, php, config, fault, pr_changes, pc, new_version,
                   changelog_entry, runs, calls, formatVars>>

\* the loop is over: "Version update completed successfully"
Finish ==
    /\ pc = "loop"
    /\ idx = Len(config)
    /\ pc' = "done"
    /\ UNCHANGED <<changelog, readme, php, config, fault, pr_changes, idx, new_version,
                   changelog_entry, out, runs, calls, formatVars>>

NextMain ==
    \/ \E t \in Titles : Start(t)
    \/ StepPhp
    \/ StepChangelog
    \/ StepSkip
    \/ StepOther
    \/ Finish

SpecMain == InitMain /\ [][NextMain]_vars

----------------------------------------------------------------------------
(* C3 *)

\* the steps of this run's loop that inserted an entry into a changelog
Inserted == {j \in 1..Len(out) : out[j].what = "changelog" /\ out[j].ret}

ScanBefore(j) == EntryScan(readlines(out[j].before), config[j].header_pattern)
ScanAfter(j) == EntryScan(readlines(out[j].after), config[j].header_pattern)

\* highest version first
Descending(vs) ==
    \A a, b \in 1..Len(vs) :
        a < b => ~TupleLess(parse_version(vs[a]), parse_version(vs[b]))

\* nv is numerically above every version of vs
Newest(nv, vs) ==
    \A a \in 1..Len(vs) : TupleLess(parse_version(vs[a]), parse_version(nv))

\* C3 as stated, for a file that ends in a line break: a release run on a
\* changelog whose entries are in descending order, with a new version above
\* all of them, leaves the entries in descending order, the new version first
\* below the header.
C3_StaysDescending ==
    \A j \in Inserted :
        (Terminated(out[j].before) /\ Descending(ScanBefore(j))
            /\ Newest(new_version, ScanBefore(j))) =>
            /\ Descending(ScanAfter(j))
            /\ ScanAfter(j) # <<>>
            /\ ScanAfter(j)[1] = new_version

\* the index of the first line below the header that starts an entry
FirstEntryLine(lines, header_pattern) ==
    LET vs == versions(lines, header_line_index(lines, header_pattern))
    IN  CHOOSE a \in vs : \A b \in vs : a <= b

\* C3 (amended): a release run on a changelog that has entries leaves the
\* entry that was first below the header first, and puts the new block
\* somewhere below the line of that entry: the new entry is never the first.
C3_FirstEntryStaysFirst ==
    \A j \in Inserted :
        ScanBefore(j) # <<>> =>
            LET lines == readlines(out[j].before)
            IN  /\ ScanAfter(j) # <<>>
                /\ ScanAfter(j)[1] = ScanBefore(j)[1]
                /\ \E at \in (FirstEntryLine(lines, config[j].header_pattern) + 1)..Len(lines) :
                        out[j].after
                            = Spliced(lines, at, new_entry_lines(changelog_entry, new_version))

V104 == V(<<1>>, <<0>>, <<4>>)

\* the second of two runs on a changelog that held the entry 1.0.2 alone:
\* the entries are now 1.0.2, 1.0.3, 1.0.4, from the header down
C3_Witness ==
    /\ runs = 2
    /\ pc = "done"
    /\ \E j \in Inserted :
            /\ ScanBefore(j) = <<V102, V103>>
            /\ ScanAfter(j) = <<V102, V103, V104>>

----------------------------------------------------------------------------
(* C8 *)

\* the changelog targets of this run whose update returned False
Failed == {j \in 1..Len(out) : out[j].what = "changelog" /\ ~out[j].ret}

\* the loop went through the targets of the configuration in their order
InConfigOrder ==
    /\ Len(out) <= Len(config)
    /\ \A j \in 1..Len(out) : out[j].path = config[j].path

\* C8 as stated: a changelog target that fails, for a missing header or for a
\* read or write that raises, is left as it was, and the run still goes
\* through every target in the order of the configuration.
C8_FailedFileUntouched ==
    /\ \A j \in Failed : out[j].after = out[j].before
    /\ InConfigOrder
    /\ (pc = "done" => Len(out) = Len(config))

\* C8 (amended): a changelog target that fails does not end the run: the loop
\* still goes through every target in the order of the configuration, and
\* the run ends early only before it touched any file.  The failed file is
\* left as it was when the header is missing, when reading raises or when
\* opening for writing raises; a write that raises after the file was opened
\* leaves the first lines of the new text, or nothing, in the file.
C8_FailureSkipsOneFile ==
    /\ \A j \in Failed :
            /\ out[j].io.e # "write_error" => out[j].after = out[j].before
            /\ out[j].io.e = "write_error" =>
                    \/ out[j].after = out[j].before
                    \/ LET lines == readlines(out[j].before)
                           hdr == header_line_index(lines, config[j].header_pattern)
                           upd == updated_lines(lines, insertion_index(lines, hdr),
                                       new_entry_lines(changelog_entry, new_version))
                       IN  \E n \in 0..(Len(upd) - 1) :
                               out[j].after = writelines(Slice(upd, 0, n))
    /\ InConfigOrder
    /\ (pc = "done" => Len(out) = Len(config))
    /\ (pc \in {"exit0", "exit1"} => out = <<>>)

\* a finished run in which a changelog without header failed on a sound file
\* system and a later target was updated
C8_Witness ==
    /\ pc = "done"
    /\ \E j \in Failed : \E k \in (j + 1)..Len(out) :
            /\ out[j].io = IoOk
            /\ out[j].after = out[j].before
            /\ out[k].ret
            /\ out[k].what \in {"version", "changelog"}

====
